---------------------------- MODULE Spec2Model ----------------------------
(***************************************************************************)
(* Booking admission and consistency engine of childcare-hotel             *)
(* (backend-firestore): BookingService, BookingRepository and ChildService *)
(* over the `booking` and `child` collections.                             *)
(*                                                                         *)
(* The state is the content of the two collections, the settings, the     *)
(* clock and the calls in flight.  A call is a sequence of steps, one for  *)
(* each access it makes to the collections; between two steps of a call    *)
(* any other call may take steps.  What a step computes is a pure operator *)
(* of the collections it reads and of the request.                         *)
(* BookingService.import writes only through create (after two checks of   *)
(* its import hash) and has no action of its own.                          *)
(***************************************************************************)
EXTENDS Integers, FiniteSets, Sequences, TLC

(***************************************************************************)
(* Bounds of the model.                                                    *)
(***************************************************************************)
MaxBookings == 1
MaxDay == 1
MaxNow == 2
MaxCapacity == 2

(***************************************************************************)
(* Values.                                                                 *)
(***************************************************************************)
BOOKED == "booked"
PROGRESS == "progress"
COMPLETED == "completed"
CANCELLED == "cancelled"
bookingStatus == {BOOKED, PROGRESS, COMPLETED, CANCELLED}

Owners == {"u1", "u2"}
Users == Owners \cup {"emp", "mgr"}
ChildIds == {"c1", "c2"}
\* Day 0 is before the clock starts (at 1).
Days == 0..MaxDay
NoId == 0
\* The ids the store gives booking documents.
BookingIds == 1..MaxBookings
\* A relation that names no document: the owner of a record that has none,
\* or the child of a record once populated when the child is not stored.
Null == "null"

\* The role of each principal.  u1 and u2 hold the child-owner role only, emp
\* the employee role only, mgr neither of the two.
RoleOf(user) ==
  CASE user \in Owners -> "childOwner"
    [] user = "emp" -> "employee"
    [] OTHER -> "manager"

isChildOwner(user) == RoleOf(user) = "childOwner"
isEmployee(user) == RoleOf(user) = "employee"

\* employeeNotes: a text, "" when there is none.  photos: the ids of the
\* photo files.
Notes == {"", "n1"}
Photos == {"p1"}

\* The fee a client puts in a payload; the dailyFee setting.
ClientFee == 999
DefaultDailyFee == 10

\* A booking payload / stored booking document, with every value the fields
\* take in the model.
NotifyData == [child : ChildIds, owner : Owners, arrival : Days,
               departure : Days, status : bookingStatus,
               employeeNotes : Notes, photos : SUBSET Photos, fee : {ClientFee}]

\* The payloads of the calls that do not interleave: no notes, no photos.
BookingData == [child : ChildIds, owner : Owners, arrival : Days,
                departure : Days, status : bookingStatus,
                employeeNotes : {""}, photos : {{}}, fee : {ClientFee}]

\* bookings, children: the two collections, as functions from the ids of the
\* stored documents.  capacity, dailyFee: the settings.  now: the clock.
\* calls: for each caller, the call it has in flight: the request, the
\* place the call has reached and what it has read so far; or the call that
\* has ended, with the error it ended with.
VARIABLES bookings, children, capacity, dailyFee, now, calls

vars == <<bookings, children, capacity, dailyFee, now, calls>>


(***************************************************************************)
(* Error kinds a handler can end with ("ok": it returned normally).        *)
(***************************************************************************)
Ok == "ok"
Forbidden == "Forbidden"
ArrivalAfterDeparture == "arrivalAfterDeparture"
PeriodPast == "periodPast"
PeriodFull == "periodFull"
BookingExists == "bookingExists"
NotFound == "NotFound"
TypeError == "TypeError"
EmailError == "EmailError"

(***************************************************************************)
(* BookingRepository                                                       *)
(***************************************************************************)

\* existsForChild(childId): some booking document has child == childId.
existsForChild(bk, childId) ==
  \E i \in DOMAIN bk : bk[i].child = childId

\* countActiveBookingsInPeriod(start, end, idToExclude): the documents with
\* departure >= start (the query), filtered by arrival <= end, by id and by
\* status in {BOOKED, PROGRESS}.
countActiveBookingsInPeriod(bk, start, end, idToExclude) ==
  LET results == {i \in DOMAIN bk : bk[i].departure >= start}
      arrivalFilter(i) == bk[i].arrival <= end
      statusFilter(i) == bk[i].status \in {BOOKED, PROGRESS}
      idToExcludeFilter(i) == idToExclude = NoId \/ i # idToExclude
  IN  IF results = {} THEN 0
      ELSE Cardinality({i \in results :
             arrivalFilter(i) /\ idToExcludeFilter(i) /\ statusFilter(i)})

\* The methods a BookingRepository object answers to: the ones its class
\* defines, and the generic ones of the entity repository it extends that the
\* services call.
BookingRepositoryMethods ==
  {"refreshTwoWayRelations", "destroyFromRelations", "findById",
   "findAndCountAll", "findAllAutocomplete", "populateAll", "populate",
   "existsForChild", "countActiveBookingsInPeriod",
   "create", "update", "destroy", "count"}

\* refreshTwoWayRelations(record): the child's `bookings` back-reference set
\* is updated to include the booking id.  Whether the id also leaves the sets
\* of the other children is the synchronizer's choice (removes).
refreshTwoWayRelations(ch, id, childId, removes) ==
  [c \in DOMAIN ch |->
     IF c = childId THEN [ch[c] EXCEPT !.bookings = @ \cup {id}]
     ELSE IF removes THEN [ch[c] EXCEPT !.bookings = @ \ {id}]
     ELSE ch[c]]

\* destroyFromRelations(id): the booking id leaves every back-reference set.
destroyFromRelations(ch, id) ==
  [c \in DOMAIN ch |-> [ch[c] EXCEPT !.bookings = @ \ {id}]]

\* The id the store gives a new document.
NextId(bk) ==
  CHOOSE i \in 1..(Cardinality(DOMAIN bk) + 1) :
    i \notin DOMAIN bk /\ \A j \in 1..(i - 1) : j \in DOMAIN bk

(***************************************************************************)
(* BookingService: validation                                              *)
(***************************************************************************)

\* validatePeriodFuture without the comparison of arrival and departure.
validatePeriodFuture_NoOrderRule(clock, data) ==
  IF data.status # BOOKED THEN Ok
  ELSE IF clock > data.arrival THEN PeriodPast
  ELSE Ok

\* validatePeriodFuture without the comparison of the arrival and the clock.
validatePeriodFuture_NoPastRule(clock, data) ==
  IF data.status # BOOKED THEN Ok
  ELSE IF data.arrival > data.departure THEN ArrivalAfterDeparture
  ELSE Ok

\* _validatePeriodFuture(data): only for status BOOKED.
validatePeriodFuture(clock, data) ==
  IF data.status # BOOKED THEN Ok
  ELSE IF data.arrival > data.departure THEN ArrivalAfterDeparture
  ELSE IF clock > data.arrival THEN PeriodPast
  ELSE Ok

\* isPeriodAvailable(start, end, idToExclude): calls
\* this.repository.countActiveBookingInPeriod, reads the capacity setting and
\* compares.  Calling a method the repository object does not have throws a
\* TypeError before the setting is read.
isPeriodAvailable(bk, cap, start, end, idToExclude) ==
  IF "countActiveBookingInPeriod" \in BookingRepositoryMethods
  THEN IF countActiveBookingsInPeriod(bk, start, end, idToExclude) < cap
       THEN "true" ELSE "false"
  ELSE TypeError

\* _validatePeriodAvailable(id, data): only for status PROGRESS or BOOKED.
validatePeriodAvailable(bk, cap, id, data) ==
  IF data.status \notin {PROGRESS, BOOKED} THEN Ok
  ELSE LET available == isPeriodAvailable(bk, cap, data.arrival, data.departure, id)
       IN  IF available = TypeError THEN TypeError
           ELSE IF available = "false" THEN PeriodFull
           ELSE Ok

\* _validateChildAndOwnerMatch(data): the child is looked up and its owner
\* compared with the payload's; child.owner.id of a child without owner is a
\* TypeError.
validateChildAndOwnerMatch(ch, data) ==
  IF data.child \notin DOMAIN ch THEN NotFound
  ELSE IF ch[data.child].owner = Null THEN TypeError
  ELSE IF ch[data.child].owner # data.owner THEN Forbidden
  ELSE Ok

\* The first error of a sequence of validation steps (Ok if none).
FirstError(steps) ==
  IF \A k \in 1..Len(steps) : steps[k] = Ok THEN Ok
  ELSE steps[CHOOSE k \in 1..Len(steps) :
               steps[k] # Ok /\ \A j \in 1..(k - 1) : steps[j] = Ok]

\* validateCreate without the rule that a child owner creates BOOKED only.
validateCreate_AnyStatus(bk, ch, cap, clock, user, data) ==
  FirstError(<<
    validatePeriodFuture(clock, data),
    validatePeriodAvailable(bk, cap, NoId, data),
    IF isChildOwner(user) /\ data.owner # user THEN Forbidden ELSE Ok,
    validateChildAndOwnerMatch(ch, data) >>)

\* _validateCreate(data)
validateCreate(bk, ch, cap, clock, user, data) ==
  FirstError(<<
    validatePeriodFuture(clock, data),
    validatePeriodAvailable(bk, cap, NoId, data),
    IF isChildOwner(user) /\ data.owner # user THEN Forbidden ELSE Ok,
    IF isChildOwner(user) /\ data.status # BOOKED THEN Forbidden ELSE Ok,
    validateChildAndOwnerMatch(ch, data) >>)

\* populate(record): the child relation is looked up in the collection of
\* children (the owner relation names a user, and the users are all there).
populate(ch, record) ==
  [record EXCEPT !.child = IF @ \in DOMAIN ch THEN @ ELSE Null]

\* _validateFindById(record): a child owner reads no booking that has an
\* owner other than them.
validateFindById(user, record) ==
  IF isChildOwner(user) /\ record.owner # Null /\ record.owner # user
  THEN Forbidden ELSE Ok

\* The payload as _validateUpdateForChildOwner leaves it: owner forced to the
\* current user.
PayloadAfterValidation(user, data) ==
  IF isChildOwner(user) THEN [data EXCEPT !.owner = user] ELSE data

\* findById(id): the record is read, and _validateFindById applied to it.
findById(bk, user, id) ==
  IF id \notin DOMAIN bk THEN NotFound ELSE validateFindById(user, bk[id])

\* validateUpdateForChildOwner without the rule on the stored status.
validateUpdateForChildOwner_AnyStoredStatus(bk, user, id, data, existingData) ==
  FirstError(<<
    findById(bk, user, id),
    IF data.status \notin {CANCELLED, BOOKED} THEN Forbidden ELSE Ok >>)

\* _validateUpdateForChildOwner(id, data, existingData), after the owner has
\* been forced: _validateIsSameOwner reads the booking again (from bk), then
\* the rule on the status of the record read first (existingData) and the
\* rule on the requested status.
validateUpdateForChildOwner(bk, user, id, data, existingData) ==
  FirstError(<<
    findById(bk, user, id),
    IF existingData.status # BOOKED THEN Forbidden ELSE Ok,
    IF data.status \notin {CANCELLED, BOOKED} THEN Forbidden ELSE Ok >>)

\* _validateUpdateForEmployee(id, data, existingData), existingData being the
\* populated record: existingData.owner.id of a record without owner and
\* existingData.child.id of a child that is not stored are TypeErrors.
validateUpdateForEmployee(data, existingData) ==
  IF existingData.status \in {CANCELLED, COMPLETED} THEN Forbidden
  ELSE IF existingData.status # BOOKED
       THEN IF data.status = BOOKED THEN Forbidden
            ELSE IF existingData.owner = Null THEN TypeError
            ELSE IF data.owner # existingData.owner THEN Forbidden
            ELSE IF existingData.child = Null THEN TypeError
            ELSE IF data.child # existingData.child THEN Forbidden
            ELSE Ok
       ELSE Ok


\* _validateUpdate(id, data), up to the read of the booking document in
\* findById(id): the period and capacity validations, and the document is
\* there.
validateUpdateRead(bk, cap, clock, id, data) ==
  FirstError(<<
    validatePeriodFuture(clock, data),
    validatePeriodAvailable(bk, cap, id, data),
    IF id \in DOMAIN bk THEN Ok ELSE NotFound >>)

\* _validateUpdate(id, data), once findById(id) has populated the record:
\* _validateFindById and, for an employee, _validateUpdateForEmployee.
validateUpdatePopulated(user, data, existingData) ==
  FirstError(<<
    validateFindById(user, existingData),
    IF isEmployee(user) THEN validateUpdateForEmployee(data, existingData) ELSE Ok >>)

\* _validateUpdate(id, data), up to the role rule of an employee, every read
\* seeing the same collections.
validateUpdateExisting(bk, ch, cap, clock, user, id, data) ==
  FirstError(<<
    validateUpdateRead(bk, cap, clock, id, data),
    IF id \in DOMAIN bk
      THEN validateUpdatePopulated(user, data, populate(ch, bk[id])) ELSE Ok >>)

\* _validateUpdate(id, data) of a call no other call interleaves with: every
\* read sees the same collections.
validateUpdate(bk, ch, cap, clock, user, id, data) ==
  LET forced == PayloadAfterValidation(user, data)
  IN  FirstError(<<
        validateUpdateExisting(bk, ch, cap, clock, user, id, data),
        IF isChildOwner(user) /\ id \in DOMAIN bk
          THEN validateUpdateForChildOwner(bk, user, id, forced, bk[id]) ELSE Ok,
        validateChildAndOwnerMatch(ch, forced) >>)

(***************************************************************************)
(* BookingService: operations.  An outcome is the error the call ends with *)
(* and the collections once the call is over: unchanged unless the batch   *)
(* was committed.                                                          *)
(***************************************************************************)
\* sent: the notifications the call sent (or tried to send).
Outcome(err, bk, ch, id) ==
  [err |-> err, bookings |-> bk, children |-> ch, id |-> id, sent |-> 0]

\* BookingFeeCalculator.calculate(arrival, departure, dailyFee): the calendar
\* days the period spans, times the daily fee.
calculate(arrival, departure, daily) ==
  IF departure < arrival THEN 0 ELSE (departure - arrival + 1) * daily

\* calculateFee taking the fee of the payload.
calculateFee_FromPayload(daily, data) ==
  data.fee

\* calculateFee(data): the dailyFee setting is read and the calculator applied
\* to the arrival and departure of the payload.
calculateFee(daily, data) ==
  calculate(data.arrival, data.departure, daily)

\* create(data), from calculateFee to the commit: data.fee is set, then one
\* batch: the booking document and the relation refresh.
createCommit(bk, ch, daily, data, removes) ==
  LET id == NextId(bk)
      record == [data EXCEPT !.fee = calculateFee(daily, data)]
  IN  Outcome(Ok, bk @@ (id :> record),
              refreshTwoWayRelations(ch, id, record.child, removes), id)

\* create(data) of a call no other call interleaves with: validate, then the
\* rest.
create(bk, ch, cap, daily, clock, user, data, removes) ==
  LET err == validateCreate(bk, ch, cap, clock, user, data)
  IN  IF err # Ok THEN Outcome(err, bk, ch, NoId)
      ELSE createCommit(bk, ch, daily, data, removes)

\* _hasChangedEmployeeNotesOrPhotos(id, newRecord), against the stored
\* record: the payload has notes and they differ from the stored ones, or one
\* of its photos is not among the stored ones.
hasChangedEmployeeNotesOrPhotos(oldRecord, newRecord) ==
  IF newRecord.employeeNotes # "" /\ oldRecord.employeeNotes # newRecord.employeeNotes
  THEN TRUE
  ELSE IF newRecord.photos = {} THEN FALSE
  ELSE \E photo \in newRecord.photos : photo \notin oldRecord.photos

\* _mustSendBookingUpdateEmail(id, newRecord): the stored record is read only
\* when the new status is PROGRESS.
mustSendBookingUpdateEmail(bk, id, newRecord) ==
  IF newRecord.status # PROGRESS THEN FALSE
  ELSE IF id \notin DOMAIN bk THEN FALSE
  ELSE hasChangedEmployeeNotesOrPhotos(bk[id], newRecord)

\* update(id, data), from calculateFee to the commit: data.fee is set, then
\* one batch: the booking document (with the payload as validation left it)
\* and the relation refresh.
updateCommit(bk, ch, daily, id, data, removes) ==
  LET record == [data EXCEPT !.fee = calculateFee(daily, data)]
  IN  Outcome(Ok, (id :> record) @@ bk,
              refreshTwoWayRelations(ch, id, record.child, removes), id)

\* update writing the booking whatever validation said.
update_WriteFirst(bk, ch, cap, daily, clock, user, id, data, emailFails, removes) ==
  LET err == validateUpdate(bk, ch, cap, clock, user, id, data)
      forced == PayloadAfterValidation(user, data)
  IN  [updateCommit(bk, ch, daily, id, forced, removes) EXCEPT !.err = err]

\* update(id, data) of a call no other call interleaves with: validate, set
\* data.fee, decide on the notification against the stored record, commit the
\* batch, read the record again; then the notification is sent if decided,
\* and an error of the sender is thrown on to the caller.
update(bk, ch, cap, daily, clock, user, id, data, emailFails, removes) ==
  LET err == validateUpdate(bk, ch, cap, clock, user, id, data)
      forced == PayloadAfterValidation(user, data)
      mustSend == mustSendBookingUpdateEmail(bk, id, forced)
      written == updateCommit(bk, ch, daily, id, forced, removes)
  IN  IF err # Ok THEN Outcome(err, bk, ch, id)
      ELSE IF ~mustSend THEN written
      ELSE [written EXCEPT !.sent = 1,
                           !.err = IF emailFails THEN EmailError ELSE Ok]

\* destroyAll(ids): every id is destroyed in one batch; the service runs no
\* check of its own.
RECURSIVE destroyRelationsOfAll(_, _)
destroyRelationsOfAll(ch, ids) ==
  IF ids = {} THEN ch
  ELSE LET id == CHOOSE i \in ids : TRUE
       IN  destroyRelationsOfAll(destroyFromRelations(ch, id), ids \ {id})

destroyAll(bk, ch, ids) ==
  Outcome(Ok, [i \in DOMAIN bk \ ids |-> bk[i]],
          destroyRelationsOfAll(ch, ids), NoId)

(***************************************************************************)
(* ChildService                                                            *)
(***************************************************************************)

\* _validateCreate(data)
childValidateCreate(user, data) ==
  IF isChildOwner(user) /\ data.owner # user THEN Forbidden ELSE Ok

\* The back-reference set a child payload carries: its bookings field, when
\* it has one.
payloadBookings(data, otherwise) ==
  IF "bookings" \in DOMAIN data THEN data.bookings ELSE otherwise

\* create(data), the batch: the payload is stored as it is handed on.
childCreateCommit(ch, id, data) ==
  ch @@ (id :> [owner |-> data.owner, bookings |-> payloadBookings(data, {})])

\* _validateFindById(record): a child owner reads no child that has an owner
\* other than them.
childValidateFindById(user, record) ==
  IF isChildOwner(user) /\ record.owner # Null /\ record.owner # user
  THEN Forbidden ELSE Ok

\* findById(id): the child is read, and _validateFindById applied to it.
childFindById(ch, user, id) ==
  IF id \notin DOMAIN ch THEN NotFound ELSE childValidateFindById(user, ch[id])

\* _validateUpdate(id, data): a child owner's payload owner is forced to the
\* current user, and the stored child must be theirs.
childValidateUpdate(ch, user, id) ==
  IF isChildOwner(user) THEN childFindById(ch, user, id) ELSE Ok

\* The payload as _validateUpdate leaves it: a child owner's payload owner
\* is forced to the current user.
childPayloadAfterValidation(user, data) ==
  IF isChildOwner(user) THEN [data EXCEPT !.owner = user] ELSE data

\* update(id, data), the batch: the fields of the payload are written to the
\* child document; a document that is not stored is written with them.
childUpdateCommit(ch, id, data) ==
  IF id \in DOMAIN ch
  THEN [ch EXCEPT ![id] = [owner |-> data.owner,
                           bookings |-> payloadBookings(data, @.bookings)]]
  ELSE childCreateCommit(ch, id, data)

\* update(id, data) of a call no other call interleaves with.  The batch
\* that updates a child that is not stored either fails (batchFails:
\* NotFound, nothing written) or writes the document.
childUpdate(bk, ch, user, id, data, batchFails) ==
  LET err == childValidateUpdate(ch, user, id)
      forced == childPayloadAfterValidation(user, data)
  IN  IF err # Ok THEN Outcome(err, bk, ch, NoId)
      ELSE IF id \notin DOMAIN ch /\ batchFails THEN Outcome(NotFound, bk, ch, NoId)
      ELSE Outcome(Ok, bk, childUpdateCommit(ch, id, forced), NoId)

\* childValidateDestroy without the bookingExists guard.
childValidateDestroy_NoGuard(bk, ch, user, id) ==
  IF isChildOwner(user) THEN childFindById(ch, user, id) ELSE Ok

\* _validateDestroy(id)
childValidateDestroy(bk, ch, user, id) ==
  FirstError(<<
    IF isChildOwner(user) THEN childFindById(ch, user, id) ELSE Ok,
    IF existsForChild(bk, id) THEN BookingExists ELSE Ok >>)

\* destroyAll(ids), the batch: the children named leave the collection.
childDestroyAllCommit(ch, ids) ==
  [c \in DOMAIN ch \ {ids[k] : k \in 1..Len(ids)} |-> ch[c]]

\* destroyAll(ids) of a call no other call interleaves with: each id is
\* validated and added to the batch in turn; the first error ends the call
\* before the commit.
childDestroyAll(bk, ch, user, ids) ==
  LET err == FirstError([k \in 1..Len(ids) |-> childValidateDestroy(bk, ch, user, ids[k])])
  IN  IF err # Ok THEN Outcome(err, bk, ch, NoId)
      ELSE Outcome(Ok, bk, childDestroyAllCommit(ch, ids), NoId)

(***************************************************************************)
(* The calls.  Each caller has at most one call in flight.  A step of a    *)
(* call is what the call does from one access to the collections to the    *)
(* next: the checks that need no read run with the read that follows them. *)
(* Steps of different callers interleave freely.                           *)
(***************************************************************************)

Callers == {1, 2}

NoData == [child |-> "none", owner |-> "none", arrival |-> 0, departure |-> 0,
           status |-> "none", employeeNotes |-> "", photos |-> {}, fee |-> 0]

\* pc: where the call is ("idle": no call; "done": it has ended, with err).
\* op, user, id, data, ids: the request (for the child service, data.child
\* carries the child id); id of a create: the id of the document once
\* written.  k: the position in ids.
\* childData: the payload of a child service call.
\* existingData: the booking document _validateUpdate read first.
\* mustSend: what _mustSendBookingUpdateEmail answered.  sent: notifications
\* sent.  wrote: the call has committed a batch.  oneSlotFree,
\* beforeCommits: what the call found at its capacity check: one booking less
\* than the capacity in the period asked for; no call had committed yet.
NoChildData == [owner |-> "none"]
NoCall == [pc |-> "idle", op |-> "none", user |-> "none", id |-> NoId,
           data |-> NoData, childData |-> NoChildData, ids |-> <<>>, k |-> 0, existingData |-> NoData,
           mustSend |-> FALSE, err |-> Ok, sent |-> 0, wrote |-> FALSE,
           oneSlotFree |-> FALSE, beforeCommits |-> FALSE]
NoCalls == [c \in Callers |-> NoCall]

\* The call ends: it throws err, or returns ("ok").
End(call, err) ==
  [call EXCEPT !.pc = "done", !.err = err, !.k = 0, !.childData = NoChildData,
               !.existingData = NoData, !.mustSend = FALSE]

\* create: _validateCreate.  The period, capacity and role checks and the
\* read of the child.
BookingCreateValidate(c, users, payloads) ==
  /\ calls[c].pc = "idle"
  /\ Cardinality(DOMAIN bookings) < MaxBookings
  /\ \E user \in users, data \in payloads :
       LET err == validateCreate(bookings, children, capacity, now, user, data)
           call == [NoCall EXCEPT
                      !.op = "booking.create", !.user = user, !.data = data,
                      !.oneSlotFree =
                        countActiveBookingsInPeriod(bookings, data.arrival,
                                                    data.departure, NoId) = capacity - 1,
                      !.beforeCommits = \A o \in Callers : ~calls[o].wrote]
       IN  calls' = [calls EXCEPT ![c] =
                       IF err # Ok THEN End(call, err)
                       ELSE [call EXCEPT !.pc = "commit"]]
  /\ UNCHANGED <<bookings, children, capacity, dailyFee, now>>

\* create: calculateFee and the batch.  When the child document is gone by
\* now, the refresh of its back-reference set either fails the batch (nothing
\* is written, NotFound) or leaves the collection of children as it is.
BookingCreateCommit(c) ==
  /\ calls[c].pc = "commit"
  /\ calls[c].op = "booking.create"
  /\ \E batchFails \in BOOLEAN, removes \in BOOLEAN :
       /\ batchFails => calls[c].data.child \notin DOMAIN children
       /\ IF batchFails
          THEN /\ calls' = [calls EXCEPT ![c] = End(calls[c], NotFound)]
               /\ UNCHANGED <<bookings, children>>
          ELSE LET r == createCommit(bookings, children, dailyFee, calls[c].data,
                                     removes)
               IN  /\ bookings' = r.bookings
                   /\ children' = r.children
                   /\ calls' = [calls EXCEPT ![c] =
                                  [calls[c] EXCEPT !.pc = "reread", !.id = r.id,
                                                   !.wrote = TRUE]]
  /\ UNCHANGED <<capacity, dailyFee, now>>

\* create: the record written is read again and returned.
BookingCreateReread(c) ==
  /\ calls[c].pc = "reread"
  /\ calls[c].op = "booking.create"
  /\ calls' = [calls EXCEPT ![c] =
                 End(calls[c], IF calls[c].id \in DOMAIN bookings THEN Ok ELSE NotFound)]
  /\ UNCHANGED <<bookings, children, capacity, dailyFee, now>>

\* update: _validateUpdate up to its first read, the booking document of
\* findById(id).
BookingUpdateValidate(c, users, payloads) ==
  /\ calls[c].pc = "idle"
  /\ \E user \in users, id \in DOMAIN bookings \cup (1..MaxBookings), data \in payloads :
       LET err == validateUpdateRead(bookings, capacity, now, id, data)
           call == [NoCall EXCEPT
                      !.op = "booking.update", !.user = user, !.id = id,
                      !.data = data]
       IN  calls' = [calls EXCEPT ![c] =
                       IF err # Ok THEN End(call, err)
                       ELSE [call EXCEPT !.pc = "populate",
                                         !.existingData = bookings[id]]]
  /\ UNCHANGED <<bookings, children, capacity, dailyFee, now>>

\* update: findById(id) populates the record it read (the child is looked
\* up) and applies _validateFindById; then the role rule of an employee, or
\* the owner of a child owner's payload is forced.
BookingUpdatePopulate(c) ==
  /\ calls[c].pc = "populate"
  /\ calls[c].op = "booking.update"
  /\ LET call == calls[c]
         existingData == populate(children, call.existingData)
         err == validateUpdatePopulated(call.user, call.data, existingData)
     IN  calls' = [calls EXCEPT ![c] =
                     IF err # Ok THEN End(call, err)
                     ELSE IF isChildOwner(call.user)
                       THEN [call EXCEPT
                               !.pc = "sameOwner",
                               !.data = PayloadAfterValidation(call.user, call.data)]
                     ELSE [call EXCEPT !.pc = "match", !.existingData = NoData]]
  /\ UNCHANGED <<bookings, children, capacity, dailyFee, now>>

\* update by a child owner: _validateIsSameOwner reads the booking again;
\* then the rules on the status read first and on the requested status.
BookingUpdateIsSameOwner(c) ==
  /\ calls[c].pc = "sameOwner"
  /\ calls[c].op = "booking.update"
  /\ LET call == calls[c]
         err == validateUpdateForChildOwner(bookings, call.user, call.id, call.data,
                                            call.existingData)
     IN  calls' = [calls EXCEPT ![c] =
                     IF err # Ok THEN End(call, err)
                     ELSE [call EXCEPT !.pc = "match", !.existingData = NoData]]
  /\ UNCHANGED <<bookings, children, capacity, dailyFee, now>>

\* update: _validateChildAndOwnerMatch reads the child.
BookingUpdateMatch(c) ==
  /\ calls[c].pc = "match"
  /\ calls[c].op = "booking.update"
  /\ LET call == calls[c]
         err == validateChildAndOwnerMatch(children, call.data)
     IN  calls' = [calls EXCEPT ![c] =
                     IF err # Ok THEN End(call, err)
                     ELSE [call EXCEPT !.pc = "mustSend"]]
  /\ UNCHANGED <<bookings, children, capacity, dailyFee, now>>

\* update: calculateFee reads the dailyFee setting; then
\* _mustSendBookingUpdateEmail, which reads the booking (findById) only when
\* the requested status is PROGRESS.
BookingUpdateMustSend(c) ==
  /\ calls[c].pc = "mustSend"
  /\ calls[c].op = "booking.update"
  /\ LET call == calls[c]
         err == IF call.data.status = PROGRESS
                  THEN findById(bookings, call.user, call.id) ELSE Ok
     IN  calls' = [calls EXCEPT ![c] =
                     IF err # Ok THEN End(call, err)
                     ELSE [call EXCEPT
                             !.pc = "commit",
                             !.mustSend = mustSendBookingUpdateEmail(bookings, call.id,
                                                                     call.data)]]
  /\ UNCHANGED <<bookings, children, capacity, dailyFee, now>>

\* update: the batch.  When the booking document or the child document is
\* gone by now, the batch either fails (nothing is written, NotFound) or
\* writes the documents it names.
BookingUpdateCommit(c) ==
  /\ calls[c].pc = "commit"
  /\ calls[c].op = "booking.update"
  /\ \E batchFails \in BOOLEAN, removes \in BOOLEAN :
       /\ batchFails => \/ calls[c].id \notin DOMAIN bookings
                        \/ calls[c].data.child \notin DOMAIN children
       /\ IF batchFails
          THEN /\ calls' = [calls EXCEPT ![c] = End(calls[c], NotFound)]
               /\ UNCHANGED <<bookings, children>>
          ELSE LET r == updateCommit(bookings, children, dailyFee, calls[c].id,
                                     calls[c].data, removes)
               IN  /\ bookings' = r.bookings
                   /\ children' = r.children
                   /\ calls' = [calls EXCEPT ![c] =
                                  [calls[c] EXCEPT !.pc = "reread", !.wrote = TRUE]]
  /\ UNCHANGED <<capacity, dailyFee, now>>

\* update: the record written is read again (NotFound when it is gone, and
\* nothing is sent); then the notification is sent if decided, and an error
\* of the sender is thrown on to the caller.
BookingUpdateReread(c) ==
  /\ calls[c].pc = "reread"
  /\ calls[c].op = "booking.update"
  /\ \E emailFails \in BOOLEAN :
       /\ emailFails => calls[c].mustSend /\ calls[c].id \in DOMAIN bookings
       /\ calls' = [calls EXCEPT ![c] =
                      IF calls[c].id \notin DOMAIN bookings
                        THEN End(calls[c], NotFound)
                      ELSE [End(calls[c], IF emailFails THEN EmailError ELSE Ok)
                              EXCEPT !.sent = IF calls[c].mustSend THEN 1 ELSE 0]]
  /\ UNCHANGED <<bookings, children, capacity, dailyFee, now>>

\* destroyAll(ids): no read; the batch of deletions is committed.  The ids
\* may be none, and may name documents that are not stored.
BookingDestroyAll(c, users) ==
  /\ calls[c].pc = "idle"
  /\ \E user \in users, ids \in SUBSET (DOMAIN bookings \cup BookingIds) :
       /\ LET r == destroyAll(bookings, children, ids)
          IN  /\ bookings' = r.bookings
              /\ children' = r.children
       /\ calls' = [calls EXCEPT ![c] =
                      End([NoCall EXCEPT !.op = "booking.destroyAll", !.user = user,
                                         !.wrote = TRUE], Ok)]
  /\ UNCHANGED <<capacity, dailyFee, now>>

\* The request of a child service call on the child id.
ChildData(id) == [NoData EXCEPT !.child = id]

\* The payloads of ChildService.create (ChildInput: the owner is required,
\* the bookings are not): an owner, with or without a bookings field.
ChildCreateData ==
  [owner : Owners] \cup [owner : Owners, bookings : SUBSET BookingIds]

\* The payloads of ChildService.update: an owner, with or without a bookings
\* field.
ChildUpdateData ==
  [owner : Owners] \cup [owner : Owners, bookings : SUBSET BookingIds]

\* The child payloads of the calls that interleave: an owner only.
ChildRaceData == [owner : Owners]

\* ChildService.create: _validateCreate reads nothing; the batch.
ChildCreate(c, users, payloads) ==
  /\ calls[c].pc = "idle"
  /\ \E user \in users, id \in ChildIds \ DOMAIN children, data \in payloads :
       LET err == childValidateCreate(user, data)
           call == [NoCall EXCEPT !.op = "child.create", !.user = user,
                                  !.data = ChildData(id)]
       IN  IF err # Ok
           THEN /\ calls' = [calls EXCEPT ![c] = End(call, err)]
                /\ UNCHANGED children
           ELSE /\ children' = childCreateCommit(children, id, data)
                /\ calls' = [calls EXCEPT ![c] =
                               [call EXCEPT !.pc = "reread", !.wrote = TRUE]]
  /\ UNCHANGED <<bookings, capacity, dailyFee, now>>

\* ChildService.create, update: the record written is read again.
ChildReread(c) ==
  /\ calls[c].pc = "reread"
  /\ calls[c].op \in {"child.create", "child.update"}
  /\ calls' = [calls EXCEPT ![c] =
                 End(calls[c], IF calls[c].data.child \in DOMAIN children
                               THEN Ok ELSE NotFound)]
  /\ UNCHANGED <<bookings, children, capacity, dailyFee, now>>

\* ChildService.update: _validateUpdate; a child owner's payload owner is
\* forced and the child is read, the others read nothing.
ChildUpdateValidate(c, users, payloads) ==
  /\ calls[c].pc = "idle"
  /\ \E user \in users, id \in ChildIds, data \in payloads :
       LET err == childValidateUpdate(children, user, id)
           call == [NoCall EXCEPT
                      !.op = "child.update", !.user = user,
                      !.data = ChildData(id)]
       IN  calls' = [calls EXCEPT ![c] =
                       IF err # Ok THEN End(call, err)
                       ELSE [call EXCEPT
                               !.pc = "commit",
                               !.childData = childPayloadAfterValidation(user, data)]]
  /\ UNCHANGED <<bookings, children, capacity, dailyFee, now>>

\* ChildService.update: the batch.  When the child document is gone by now
\* (or was never stored), the batch either fails (nothing is written,
\* NotFound) or writes the document.
ChildUpdateCommit(c) ==
  /\ calls[c].pc = "commit"
  /\ calls[c].op = "child.update"
  /\ \E batchFails \in BOOLEAN :
       /\ batchFails => calls[c].data.child \notin DOMAIN children
       /\ IF batchFails
          THEN /\ calls' = [calls EXCEPT ![c] = End(calls[c], NotFound)]
               /\ UNCHANGED children
          ELSE /\ children' = childUpdateCommit(children, calls[c].data.child,
                                                calls[c].childData)
               /\ calls' = [calls EXCEPT ![c] =
                              [calls[c] EXCEPT !.pc = "reread", !.wrote = TRUE,
                                               !.childData = NoChildData]]
  /\ UNCHANGED <<bookings, capacity, dailyFee, now>>

\* The sequences of distinct child ids a destroyAll call may name.
IdLists(S) ==
  {<<c>> : c \in S} \cup {<<c, d>> : <<c, d>> \in {p \in S \X S : p[1] # p[2]}}

\* The place of a destroyAll call at the start of _validateDestroy.
DestroyCheck(user) == IF isChildOwner(user) THEN "sameOwner" ELSE "existsForChild"

\* ChildService.destroyAll(ids): the batch is created.  The ids may be none,
\* and may name children that are not stored.
ChildDestroyAllStart(c, users) ==
  /\ calls[c].pc = "idle"
  /\ \E user \in users, ids \in IdLists(ChildIds) \cup {<<>>} :
       calls' = [calls EXCEPT ![c] =
                   IF ids = <<>>
                   THEN [NoCall EXCEPT !.op = "child.destroyAll", !.user = user,
                                       !.pc = "commit"]
                   ELSE [NoCall EXCEPT !.op = "child.destroyAll", !.user = user,
                                       !.ids = ids, !.k = 1,
                                       !.pc = DestroyCheck(user)]]
  /\ UNCHANGED <<bookings, children, capacity, dailyFee, now>>

\* ChildService.destroyAll, _validateDestroy(ids[k]) of a child owner:
\* _validateIsSameOwner reads the child.
ChildDestroyIsSameOwner(c) ==
  /\ calls[c].pc = "sameOwner"
  /\ calls[c].op = "child.destroyAll"
  /\ LET call == calls[c]
         err == childFindById(children, call.user, call.ids[call.k])
     IN  calls' = [calls EXCEPT ![c] =
                     IF err # Ok THEN End(call, err)
                     ELSE [call EXCEPT !.pc = "existsForChild"]]
  /\ UNCHANGED <<bookings, children, capacity, dailyFee, now>>

\* ChildService.destroyAll, _validateDestroy(ids[k]): the existsForChild
\* query; then the deletion of ids[k] joins the batch and the loop moves on.
ChildDestroyExistsForChild(c) ==
  /\ calls[c].pc = "existsForChild"
  /\ calls[c].op = "child.destroyAll"
  /\ LET call == calls[c]
     IN  calls' = [calls EXCEPT ![c] =
                     IF existsForChild(bookings, call.ids[call.k])
                       THEN End(call, BookingExists)
                     ELSE IF call.k < Len(call.ids)
                       THEN [call EXCEPT !.k = call.k + 1,
                                         !.pc = DestroyCheck(call.user)]
                     ELSE [call EXCEPT !.pc = "commit"]]
  /\ UNCHANGED <<bookings, children, capacity, dailyFee, now>>

\* ChildService.destroyAll: the batch of deletions is committed.
ChildDestroyAllCommit(c) ==
  /\ calls[c].pc = "commit"
  /\ calls[c].op = "child.destroyAll"
  /\ children' = childDestroyAllCommit(children, calls[c].ids)
  /\ calls' = [calls EXCEPT ![c] = End([calls[c] EXCEPT !.wrote = TRUE], Ok)]
  /\ UNCHANGED <<bookings, capacity, dailyFee, now>>

\* The call that ended returns to its caller, who may call again.
Return(c) ==
  /\ calls[c].pc = "done"
  /\ calls' = [calls EXCEPT ![c] = NoCall]
  /\ UNCHANGED <<bookings, children, capacity, dailyFee, now>>

\* The clock moves on.
Tick ==
  /\ now < MaxNow
  /\ now' = now + 1
  /\ UNCHANGED <<bookings, children, capacity, dailyFee, calls>>

(***************************************************************************)
(* Calls that do not interleave: one caller, who calls again once the call *)
(* before has returned.  The collections start empty.                      *)
(***************************************************************************)
FirstCaller == CHOOSE c \in Callers : TRUE

\* The payloads of the calls that do not interleave: those without notes and
\* photos, and the requests for PROGRESS that carry notes.
SeqData ==
  BookingData \cup {d \in NotifyData : /\ d.status = PROGRESS
                                       /\ d.employeeNotes # ""
                                       /\ d.photos = {}
                                       /\ d.arrival = d.departure}

NoDocuments == [i \in {} |-> NoData]

InitSeq ==
  /\ bookings = NoDocuments
  /\ children = NoDocuments
  /\ capacity \in 1..MaxCapacity
  /\ dailyFee = DefaultDailyFee
  /\ now = 1
  /\ calls = NoCalls

NextSeq ==
  \/ BookingCreateValidate(FirstCaller, Users, SeqData)
  \/ BookingCreateCommit(FirstCaller)
  \/ BookingCreateReread(FirstCaller)
  \/ BookingUpdateValidate(FirstCaller, Users, SeqData)
  \/ BookingUpdatePopulate(FirstCaller)
  \/ BookingUpdateIsSameOwner(FirstCaller)
  \/ BookingUpdateMatch(FirstCaller)
  \/ BookingUpdateMustSend(FirstCaller)
  \/ BookingUpdateCommit(FirstCaller)
  \/ BookingUpdateReread(FirstCaller)
  \/ BookingDestroyAll(FirstCaller, Users)
  \/ ChildCreate(FirstCaller, Users, ChildCreateData)
  \/ ChildReread(FirstCaller)
  \/ ChildUpdateValidate(FirstCaller, Users, ChildUpdateData)
  \/ ChildUpdateCommit(FirstCaller)
  \/ ChildDestroyAllStart(FirstCaller, Users)
  \/ ChildDestroyIsSameOwner(FirstCaller)
  \/ ChildDestroyExistsForChild(FirstCaller)
  \/ ChildDestroyAllCommit(FirstCaller)
  \/ Return(FirstCaller)
  \/ Tick

SpecSeq == InitSeq /\ [][NextSeq]_vars

(***************************************************************************)
(* Calls that interleave: two callers, one call each, the steps of the two *)
(* calls in any order.  The collections start as calls leave them: both    *)
(* children stored, and no booking or one booking as a create stores it.   *)
(***************************************************************************)
\* The owner each child is registered with at the start.
InitialOwner(c) == IF c = "c1" THEN "u1" ELSE "u2"

\* A booking document as a create stores it: the payload with the fee
\* computed.
Stored(data) == [data EXCEPT !.fee = calculateFee(DefaultDailyFee, data)]

\* The payloads a create accepts while the child is with its first owner: no
\* create that asks for BOOKED or PROGRESS gets past isPeriodAvailable.
Storable ==
  {d \in BookingData : /\ validatePeriodFuture(MaxNow, d) = Ok
                       /\ validatePeriodAvailable(NoDocuments, MaxCapacity, NoId, d) = Ok
                       /\ d.owner = InitialOwner(d.child)}

\* The booking collections at the start: empty, or one document.
InitialBookings ==
  {NoDocuments} \cup {NextId(NoDocuments) :> Stored(d) : d \in Storable}

\* The payloads of the calls that interleave: one period.
RaceData == {d \in BookingData : d.arrival = now /\ d.departure = now}

Init ==
  /\ bookings \in InitialBookings
  /\ children = [c \in ChildIds |->
                   [owner |-> InitialOwner(c),
                    bookings |-> {i \in DOMAIN bookings : bookings[i].child = c}]]
  /\ capacity \in 1..MaxCapacity
  /\ dailyFee = DefaultDailyFee
  /\ now = 1
  /\ calls = NoCalls

Next ==
  \/ \E c \in Callers : BookingCreateValidate(c, Users, RaceData)
  \/ \E c \in Callers : BookingCreateCommit(c)
  \/ \E c \in Callers : BookingCreateReread(c)
  \/ \E c \in Callers : BookingUpdateValidate(c, Users, RaceData)
  \/ \E c \in Callers : BookingUpdatePopulate(c)
  \/ \E c \in Callers : BookingUpdateIsSameOwner(c)
  \/ \E c \in Callers : BookingUpdateMatch(c)
  \/ \E c \in Callers : BookingUpdateMustSend(c)
  \/ \E c \in Callers : BookingUpdateCommit(c)
  \/ \E c \in Callers : BookingUpdateReread(c)
  \/ \E c \in Callers : BookingDestroyAll(c, Users)
  \/ \E c \in Callers : ChildCreate(c, Users, ChildRaceData)
  \/ \E c \in Callers : ChildReread(c)
  \/ \E c \in Callers : ChildUpdateValidate(c, Users, ChildRaceData)
  \/ \E c \in Callers : ChildUpdateCommit(c)
  \/ \E c \in Callers : ChildDestroyAllStart(c, Users)
  \/ \E c \in Callers : ChildDestroyIsSameOwner(c)
  \/ \E c \in Callers : ChildDestroyExistsForChild(c)
  \/ \E c \in Callers : ChildDestroyAllCommit(c)

Spec == Init /\ [][Next]_vars

(***************************************************************************)
(* Properties.  A property of a handler is stated over every request the   *)
(* handler can be given in a state where no call is in flight: the outcome *)
(* is the one the steps of the call reach when no other call interleaves.  *)
(* The rules that are functions of the payload and the record read are     *)
(* stated over every payload and every record.                             *)
(***************************************************************************)
Unchanged(r) == r.bookings = bookings /\ r.children = children

\* No call is in flight: a call may start.
CallMayStart == \A c \in Callers : calls[c].pc = "idle"

\* The call of the caller of the calls that do not interleave.
last == calls[FirstCaller]

\* The call of the caller has ended.
Ended(op) == last.pc = "done" /\ last.op = op

\* The outcome of a booking write: a create (id = NoId) or an update of id,
\* the sender working and the synchronizer adding to the set of the child
\* written.  (What the synchronizer does to the sets of the other children
\* shows in the children of a successful write only.)
Write(user, id, data) ==
  IF id = NoId
  THEN create(bookings, children, capacity, dailyFee, now, user, data, FALSE)
  ELSE update(bookings, children, capacity, dailyFee, now, user, id, data, FALSE,
              FALSE)

\* The payloads and records the role rules are stated over: every child,
\* owner and status, one period.
RuleData == {d \in BookingData : d.arrival = MaxDay /\ d.departure = MaxDay}

\* The collection that holds the one record old.
Alone(old) == NextId(NoDocuments) :> old

\* C1: a create or update requesting BOOKED or PROGRESS whose period passed
\* validation fails with periodFull, writing nothing, exactly when the active
\* bookings overlapping the period (the updated one excluded) number at least
\* the capacity, and passes the admission check exactly when they number
\* less; a request for CANCELLED or COMPLETED never fails with periodFull.
C1_AdmissionControl ==
  CallMayStart =>
  \A user \in Users, id \in DOMAIN bookings \cup {NoId}, data \in BookingData :
    LET r == Write(user, id, data)
        full == countActiveBookingsInPeriod(bookings, data.arrival,
                                            data.departure, id) >= capacity
    IN  /\ (data.status \in {BOOKED, PROGRESS} /\ validatePeriodFuture(now, data) = Ok)
             => /\ (r.err = PeriodFull /\ Unchanged(r)) <=> full
                /\ validatePeriodAvailable(bookings, capacity, id, data) = Ok <=> ~full
        /\ data.status \in {CANCELLED, COMPLETED} => r.err # PeriodFull

\* The request C1 fails on has been made: a create ended with a TypeError
\* while the collection held no booking.
C1_Witness ==
  /\ Ended("booking.create")
  /\ last.err = TypeError
  /\ last.data.status \in {BOOKED, PROGRESS}
  /\ DOMAIN bookings = {}

Terminal == {COMPLETED, CANCELLED}

\* The status changes C2 allows.
Transitions ==
  {<<BOOKED, PROGRESS>>, <<BOOKED, CANCELLED>>,
   <<PROGRESS, COMPLETED>>, <<PROGRESS, CANCELLED>>}

\* C2, as claimed: for every actor, a successful update changes the status
\* only along BOOKED->PROGRESS, BOOKED->CANCELLED, PROGRESS->COMPLETED or
\* PROGRESS->CANCELLED, and every update of a COMPLETED or CANCELLED booking
\* fails with Forbidden and leaves the collections unchanged.
C2_StatusTransitions ==
  CallMayStart =>
  \A user \in Users, id \in DOMAIN bookings, data \in BookingData :
    LET r == Write(user, id, data)
        old == bookings[id].status
    IN  /\ (r.err = Ok /\ r.bookings[id].status # old)
             => <<old, r.bookings[id].status>> \in Transitions
        /\ old \in Terminal => (r.err = Forbidden /\ Unchanged(r))

\* An actor with neither role has updated a stored booking, whose status was
\* COMPLETED or CANCELLED as is that of every stored booking, and the update
\* has succeeded: the booking is now COMPLETED.
C2_Witness ==
  /\ Ended("booking.update")
  /\ ~isChildOwner(last.user)
  /\ ~isEmployee(last.user)
  /\ last.err = Ok
  /\ last.wrote
  /\ last.id \in DOMAIN bookings
  /\ bookings[last.id].status = COMPLETED

\* C3: a child owner's update succeeds only if the stored booking is theirs,
\* its stored status is BOOKED and the requested status is BOOKED or
\* CANCELLED, and then the booking is written with the actor as owner; in
\* every other case it fails and the collections are unchanged.  The rule of
\* the child owner passes only then, whatever the record read.
C3_ChildOwnerUpdate ==
  CallMayStart =>
  /\ \A user \in Users, id \in DOMAIN bookings, data \in BookingData :
       isChildOwner(user) =>
         LET r == Write(user, id, data)
             old == bookings[id]
         IN  IF r.err = Ok
             THEN /\ old.owner = user
                  /\ old.status = BOOKED
                  /\ data.status \in {BOOKED, CANCELLED}
                  /\ r.bookings[id].owner = user
                  /\ r.bookings[id].status = data.status
             ELSE Unchanged(r)
  /\ \A user \in Owners, old \in RuleData, data \in RuleData :
       validateUpdateForChildOwner(Alone(old), user, NextId(NoDocuments),
                                   PayloadAfterValidation(user, data), old) = Ok
       => /\ old.owner = user
          /\ old.status = BOOKED
          /\ data.status \in {BOOKED, CANCELLED}
          /\ PayloadAfterValidation(user, data).owner = user

\* A child owner's update of their own booking has been refused after the
\* booking was read again.
C3_Witness ==
  /\ Ended("booking.update")
  /\ isChildOwner(last.user)
  /\ last.err = Forbidden
  /\ last.data.status = CANCELLED
  /\ last.id \in DOMAIN bookings
  /\ bookings[last.id].owner = last.user

\* Whether an employee's update of old with data breaks a rule C4 lists.
EmployeeRuleBroken(old, data) ==
  \/ old.status \in Terminal
  \/ /\ old.status # BOOKED
     /\ \/ data.status = BOOKED
        \/ data.owner # old.owner
        \/ data.child # old.child

\* C4, as claimed: an employee's update of a CANCELLED or COMPLETED booking
\* fails with Forbidden; of a booking that is not BOOKED, it fails with
\* Forbidden if it requests BOOKED or a different owner or a different child;
\* a rejected update leaves the collections unchanged.
C4_EmployeeUpdate ==
  CallMayStart =>
  \A user \in Users, id \in DOMAIN bookings, data \in BookingData :
    isEmployee(user) =>
      LET r == Write(user, id, data)
      IN  /\ EmployeeRuleBroken(bookings[id], data) => r.err = Forbidden
          /\ r.err # Ok => Unchanged(r)

\* An employee's update of a cancelled booking has been refused with
\* periodPast, not Forbidden.
C4_Witness ==
  /\ Ended("booking.update")
  /\ isEmployee(last.user)
  /\ last.err = PeriodPast
  /\ last.id \in DOMAIN bookings
  /\ bookings[last.id].status = CANCELLED

\* C5: a child owner's create succeeds only if the payload status is BOOKED,
\* the payload owner is the actor and the child's owner is that owner;
\* otherwise it fails and no booking is inserted.
C5_ChildOwnerCreate ==
  CallMayStart =>
  \A user \in Users, data \in BookingData :
    isChildOwner(user) =>
      LET r == Write(user, NoId, data)
      IN  IF r.err = Ok
          THEN /\ data.status = BOOKED
               /\ data.owner = user
               /\ data.child \in DOMAIN children
               /\ children[data.child].owner = data.owner
          ELSE Unchanged(r)

\* A child owner's create has been refused with Forbidden.
C5_Witness ==
  /\ Ended("booking.create")
  /\ isChildOwner(last.user)
  /\ last.err = Forbidden

\* C6: every stored booking's owner is the owner of its child.
C6_OwnerIsChildOwner ==
  \A i \in DOMAIN bookings :
    /\ bookings[i].child \in DOMAIN children
    /\ bookings[i].owner = children[bookings[i].child].owner

\* A child with a booking has been given another owner.
C6_Witness ==
  /\ Ended("child.update")
  /\ last.err = Ok
  /\ \E i \in DOMAIN bookings :
       /\ bookings[i].child \in DOMAIN children
       /\ bookings[i].owner # children[bookings[i].child].owner

\* C7: with capacity 2 and no booking, creating BOOKED bookings A and B for
\* [Jan 1, Jan 5] succeeds twice; a third BOOKED create for [Jan 3, Jan 4]
\* fails with periodFull; after A is updated to CANCELLED the same create
\* succeeds.
C7_CapacityScenario ==
  \A removes \in BOOLEAN :
  (/\ CallMayStart
   /\ DOMAIN bookings = {}
   /\ capacity = 2
   /\ now = 1
   /\ "c1" \in DOMAIN children
   /\ children["c1"].owner = "u1")
  => LET A == [child |-> "c1", owner |-> "u1", arrival |-> 1, departure |-> 5,
               status |-> BOOKED, employeeNotes |-> "", photos |-> {},
               fee |-> ClientFee]
         third == [A EXCEPT !.arrival = 3, !.departure = 4]
         r1 == create(bookings, children, capacity, dailyFee, now, "emp", A, removes)
         r2 == create(r1.bookings, r1.children, capacity, dailyFee, now, "emp", A, removes)
         r3 == create(r2.bookings, r2.children, capacity, dailyFee, now, "emp", third, removes)
         r4 == update(r2.bookings, r2.children, capacity, dailyFee, now, "emp", r1.id,
                      [A EXCEPT !.status = CANCELLED], FALSE, removes)
         r5 == create(r4.bookings, r4.children, capacity, dailyFee, now, "emp", third, removes)
     IN  /\ r1.err = Ok
         /\ r2.err = Ok
         /\ r3.err = PeriodFull
         /\ r4.err = Ok
         /\ r5.err = Ok

\* The first create of the scenario has been made and has failed.
C7_Witness ==
  /\ DOMAIN bookings = {}
  /\ capacity = 2
  /\ Ended("booking.create")
  /\ isEmployee(last.user)
  /\ last.data.status = BOOKED
  /\ last.err = TypeError

Overlap(d, e) == d.departure >= e.arrival /\ d.arrival <= e.departure

\* Two create calls for overlapping periods have each run their capacity
\* check while one slot was free and before either committed, and both have
\* ended.
BothChecked ==
  /\ \A c \in Callers :
       /\ calls[c].pc = "done"
       /\ calls[c].op = "booking.create"
       /\ calls[c].data.status = BOOKED
       /\ calls[c].oneSlotFree
       /\ calls[c].beforeCommits
  /\ \A c \in Callers, o \in Callers : Overlap(calls[c].data, calls[o].data)

\* C9: when two create calls for overlapping periods have each run their
\* capacity check while one slot was free and before either committed, and
\* nothing else was wrong with the requests, both commit and the active
\* bookings overlapping the period number one more than the capacity.
C9_CapacityRace ==
  (/\ BothChecked
   /\ \A c \in Callers :
        /\ validatePeriodFuture(now, calls[c].data) = Ok
        /\ validateChildAndOwnerMatch(children, calls[c].data) = Ok
        /\ ~isChildOwner(calls[c].user))
  => \A c \in Callers :
       /\ calls[c].err = Ok
       /\ countActiveBookingsInPeriod(bookings, calls[c].data.arrival,
                                      calls[c].data.departure, NoId) = capacity + 1

\* Two such creates have both ended with a TypeError and nothing is stored.
C9_Witness ==
  /\ BothChecked
  /\ \A c \in Callers : calls[c].err = TypeError
  /\ DOMAIN bookings = {}

\* Whether a child named in ids is the child of a stored booking.
Referenced(ids) == \E k \in 1..Len(ids) : existsForChild(bookings, ids[k])

C11_DestroyAllOwnership ==
  CallMayStart =>
  \A user \in Users, ids \in SUBSET DOMAIN bookings :
    (/\ isChildOwner(user)
     /\ \E i \in ids : bookings[i].owner # user)
    => LET r == destroyAll(bookings, children, ids)
       IN  /\ r.err # Ok
           /\ \A i \in ids : i \in DOMAIN r.bookings

\* A child owner's destroyAll has returned normally and a child of another
\* owner has no booking left.
C11_Witness ==
  /\ Ended("booking.destroyAll")
  /\ isChildOwner(last.user)
  /\ last.err = Ok
  /\ \E c \in DOMAIN children :
       /\ children[c].owner # last.user
       /\ ~existsForChild(bookings, c)

\* Whether C14 has a notification due: the requested status is PROGRESS and
\* the payload notes differ from the stored ones or a payload photo is new.
NotificationDue(old, data) ==
  /\ data.status = PROGRESS
  /\ \/ data.employeeNotes # old.employeeNotes
     \/ data.photos \ old.photos # {}

WriteIds == DOMAIN bookings \cup {NoId}

\* C15: every stored booking with status BOOKED has arrival <= departure, and
\* a create or update with status BOOKED and arrival after departure fails
\* with arrivalAfterDeparture, writing nothing.
C15_PeriodOrder ==
  /\ \A i \in DOMAIN bookings :
       bookings[i].status = BOOKED => bookings[i].arrival <= bookings[i].departure
  /\ CallMayStart =>
       \A user \in Users, id \in WriteIds, data \in BookingData :
         (data.status = BOOKED /\ data.arrival > data.departure)
         => LET r == Write(user, id, data)
            IN  r.err = ArrivalAfterDeparture /\ Unchanged(r)

\* An update of a stored booking has been refused with arrivalAfterDeparture.
C15_Witness ==
  /\ Ended("booking.update")
  /\ last.id \in DOMAIN bookings
  /\ last.err = ArrivalAfterDeparture

\* C16, as claimed: a create or update requesting BOOKED with an arrival
\* before the clock fails with periodPast and writes nothing; a request for
\* another status fails with neither arrivalAfterDeparture nor periodPast.
C16_PastPeriod ==
  CallMayStart =>
  \A user \in Users, id \in WriteIds, data \in BookingData :
    LET r == Write(user, id, data)
    IN  /\ (data.status = BOOKED /\ data.arrival < now)
             => (r.err = PeriodPast /\ Unchanged(r))
        /\ data.status # BOOKED => r.err \notin {ArrivalAfterDeparture, PeriodPast}

\* C16, amended: such a request fails and writes nothing, with periodPast
\* when its arrival is not after its departure and with
\* arrivalAfterDeparture when it is; a request for another status fails with
\* neither.
C16_PastPeriod_Amended ==
  CallMayStart =>
  \A user \in Users, id \in WriteIds, data \in BookingData :
    LET r == Write(user, id, data)
    IN  /\ (data.status = BOOKED /\ data.arrival < now)
             => /\ r.err = (IF data.arrival > data.departure
                             THEN ArrivalAfterDeparture ELSE PeriodPast)
                /\ Unchanged(r)
        /\ data.status # BOOKED => r.err \notin {ArrivalAfterDeparture, PeriodPast}

\* A booking write has been refused with periodPast.
C16_Witness ==
  /\ last.pc = "done"
  /\ last.op \in {"booking.create", "booking.update"}
  /\ last.err = PeriodPast
  /\ now > 1

\* The fees a payload may carry.
PayloadFees == {0, 25, ClientFee}

\* C17: after a successful create or update the stored fee is the fee
\* calculator applied to the payload arrival and departure and the dailyFee
\* setting, and the outcome is the same whatever fee the payload carries.
C17_FeeServerDerived ==
  CallMayStart =>
  \A user \in Users, id \in WriteIds, data \in BookingData, fee \in PayloadFees :
    LET r == Write(user, id, [data EXCEPT !.fee = fee])
    IN  /\ r.err = Ok
             => r.bookings[r.id].fee = calculate(data.arrival, data.departure, dailyFee)
        /\ r = Write(user, id, data)

\* A booking whose payload carried the client fee has been written, and its
\* stored fee is the calculated one.
C17_Witness ==
  /\ last.pc = "done"
  /\ last.op \in {"booking.create", "booking.update"}
  /\ last.err = Ok
  /\ last.data.fee = ClientFee
  /\ last.id \in DOMAIN bookings
  /\ bookings[last.id].fee # ClientFee
  /\ bookings[last.id].fee = calculate(bookings[last.id].arrival,
                                       bookings[last.id].departure, dailyFee)

\* C18: when a create or update fails, the stored bookings, their fields and
\* the back-reference sets of the children are unchanged and no notification
\* is sent.
C18_ValidationBeforeWrite ==
  CallMayStart =>
  \A user \in Users, id \in WriteIds, data \in BookingData :
    LET r == Write(user, id, data)
    IN  r.err # Ok => (Unchanged(r) /\ r.sent = 0)

\* A create for a child that is not stored has been refused.
C18_Witness ==
  /\ Ended("booking.create")
  /\ last.err = NotFound
  /\ last.sent = 0
  /\ ~last.wrote

\* C20: when a ChildService.destroyAll interleaves with a booking create or
\* update, every stored booking references a child that is still stored.
C20_NoDanglingChild ==
  \A i \in DOMAIN bookings : bookings[i].child \in DOMAIN children

\* A create and a destroyAll that name the same child have both returned
\* normally, and the booking written references a child that is gone.
C20_Witness ==
  \E w \in Callers, d \in Callers :
    /\ calls[w].pc = "done"
    /\ calls[w].op = "booking.create"
    /\ calls[w].err = Ok
    /\ calls[d].pc = "done"
    /\ calls[d].op = "child.destroyAll"
    /\ calls[d].err = Ok
    /\ calls[w].id \in DOMAIN bookings
    /\ bookings[calls[w].id].child \notin DOMAIN children

=============================================================================
